---- MODULE Spec2Model ----
(***************************************************************************)
(* Model of swimpy/plot.py (the plot_function decorator, PlotFunction, the *)
(* save helper and plot_flow_duration_polar) and of                        *)
(* swimpy/output.py (catchment_monthly_waterbalance.from_project).         *)
(*                                                                         *)
(* Three specifications share the module:                                  *)
(*   Spec         wrapping a function and calling the wrapper              *)
(*   SpecMonthly  parsing a monthly raw file                               *)
(*   SpecPolar    plot_flow_duration_polar                                 *)
(***************************************************************************)
EXTENDS Integers, Sequences, FiniteSets, TLC

\* ---------------------------------------------------------------- bounds
NRuns == 2       \* runs stored in the run archive
MaxSel == 3      \* longest runs selector a caller passes
MaxYears == 2    \* years in a monthly raw file
MaxN == 3        \* values in the series of a flow duration plot

VARIABLES
  finfo,          \* FunctionInfo(function): name, optional arguments, **kwargs
  pf,             \* "unwrapped" | "wrapped" | "error"
  pc,             \* position inside PlotFunction.__call__
  argv,           \* sys.argv
  run_has,        \* per archived run: does it carry the plot method
  save_figure_defaults,  \* project.save_figure_defaults
  outmap,         \* the caller's `output` mapping object (a dict)
  args,           \* self.args: [recv, rest]
  kwargs,         \* self.kwargs: [label, output]
  runs,           \* self.runs (the selector)
  output,         \* self.output
  project,        \* self.project
  current_label,  \* local of _plot_runs
  coll,           \* local `runs` of _plot_runs: the resolved collection
  i,              \* loop position of _plot_runs (1-based; Python index i-1)
  result,         \* self.result
  savekwargs,     \* self.savekwargs
  calls,          \* invocations of the undecorated function, in order
  printed,        \* diagnostics printed by _plot_runs
  legend,         \* ax.get_legend(): "none" | "user" | "auto"
  figure,         \* the figure: files written, size, shown, cleared
  err,            \* exception that left the call / the wrapping
  mon,            \* state of catchment_monthly_waterbalance.from_project
  pol             \* state of plot_flow_duration_polar

callvars == <<finfo, pf, pc, argv, run_has, save_figure_defaults,
              outmap, args, kwargs, runs, output, project, current_label,
              coll, i, result, savekwargs, calls, printed, legend,
              figure, err>>
vars == <<callvars, mon, pol>>

\* ------------------------------------------------------------ Python values
None == "None"
NoKey == "<no key>"            \* key absent from a dict of keyword arguments
DictRef == "<dict>"            \* the `output` argument is the mapping object
TmpPath == "<mkstemp>.png"     \* tempfile.mkstemp()[1] + '.png'
NoErr == [type |-> "", msg |-> ""]

\* truth value of a str / None
Truthy(s) == s \notin {None, ""}

Range(s) == {s[k] : k \in 1..Len(s)}

\* dict.update
Update(d, m) ==
  [k \in (DOMAIN d) \cup (DOMAIN m) |-> IF k \in DOMAIN m THEN m[k] ELSE d[k]]

\* dict without key k (the dict after d.pop(k, None))
Pop(d, k) == [j \in (DOMAIN d) \ {k} |-> d[j]]

\* d.pop(k, None): the value returned
PopValue(d, k) == IF k \in DOMAIN d THEN d[k] ELSE None

EmptyDict == [k \in {} |-> <<>>]

\* ------------------------------------------------------------ input domains
\* selector entries: a Run of the archive (s is its string form) or a str
RunStr(n) == "run" \o ToString(n)
Run(n) == [type |-> "Run", id |-> n, s |-> RunStr(n)]
Str(s) == [type |-> "str", id |-> 0, s |-> s]
Runs == {Run(n) : n \in 1..NRuns}
Entries == Runs \cup {Str("live")}

Injective(s) == \A a, b \in 1..Len(s) : s[a] = s[b] => a = b
Lists == UNION {{s \in [1..n -> Entries] : Injective(s)} : n \in 0..MaxSel}

\* runs=None (or not given), a single Run, or an iterable of Runs and strs
Selectors ==
  {[kind |-> "None", items |-> <<>>]}
  \cup {[kind |-> "Run", items |-> <<r>>] : r \in Runs}
  \cup {[kind |-> "list", items |-> l] : l \in Lists}

\* receivers (first positional argument): the Project, a sub-component
\* of the project (has a project attribute), or an object with neither
Receivers == {[kind |-> k, run |-> 0] : k \in {"Project", "plugin", "other"}}
Rests == {<<>>, <<"arg">>}
Labels == {NoKey, "mine"}
OutputArgs == {None, "fig.png", DictRef}

DPI == "dpi"
SIZE == "size"
OUTPUT == "output"
Defaults ==
  {EmptyDict,
   [k \in {DPI, SIZE} |-> IF k = DPI THEN <<72>> ELSE <<210, 297>>]}
OutMaps ==
  {[k \in {OUTPUT, DPI} |-> IF k = OUTPUT THEN "map.png" ELSE <<300>>],
   [k \in {OUTPUT, SIZE} |-> IF k = OUTPUT THEN "map.png" ELSE <<100>>],
   [k \in {OUTPUT, SIZE} |-> IF k = OUTPUT THEN "map.png" ELSE <<>>],
   [k \in {SIZE} |-> <<100>>],
   [k \in {DPI, SIZE} |-> IF k = DPI THEN <<300>> ELSE <<100, 50>>]}

\* sys.argv: the program path as a character sequence, then the command
SwimpyPath == <<"b","i","n","/","s","w","i","m","p","y">>
PythonPath == <<"t","e","s","t",".","p","y">>
Argvs == {<<PythonPath>>, <<PythonPath, "browser">>,
          <<SwimpyPath, "run">>, <<SwimpyPath, "browser">>}

\* function names as character sequences
Names == {<<"p","l","o","t","_","q">>, <<"d","r","a","w","_","q">>,
          <<"p","l","o">>}
\* how a parameter is declared: not optional, =None, or another default
ArgDecls == {"absent", "None", "other"}
FInfos == [name : Names, ax : ArgDecls, output : ArgDecls, kwargs : BOOLEAN]

NoFigure == [saved |-> <<>>, size |-> <<>>, tight |-> FALSE,
             shown |-> 0, cleared |-> FALSE]
NoResult == [kind |-> "None", items |-> <<>>]
NoSel == [kind |-> "None", items |-> <<>>]
NoArgs == [recv |-> [kind |-> "other", run |-> 0], rest |-> <<>>]
NoKw == [label |-> NoKey, output |-> None]
MonIdle == [pc |-> "off"]
PolIdle == [pc |-> "off"]

\* ------------------------------------------------ PlotFunction.__init__
\* str.startswith
startswith(name, prefix) ==
  /\ Len(name) >= Len(prefix)
  /\ SubSeq(name, 1, Len(prefix)) = prefix

PLOT == <<"p","l","o","t">>

\* oargs = dict(zip(optional_arguments, defaults)); a in oargs and
\* oargs[a] is None
OptionalNone(decl) == decl = "None"

\* variant of InitError: the loop of line 307 checks only `ax`
InitError_ax_only(fi) ==
  IF ~OptionalNone(fi.ax) THEN "has no optional argument ax=None"
  ELSE IF ~startswith(fi.name, PLOT) THEN "should start with plot"
  ELSE IF ~fi.kwargs THEN "must accept **kwargs"
  ELSE ""

\* the first assertion of __init__ that fails, "" when none does
InitError(fi) ==
  IF ~OptionalNone(fi.output) THEN "has no optional argument output=None"
  ELSE IF ~OptionalNone(fi.ax) THEN "has no optional argument ax=None"
  ELSE IF ~startswith(fi.name, PLOT) THEN "should start with plot"
  ELSE IF ~fi.kwargs THEN "must accept **kwargs"
  ELSE ""

\* plot_function(function): pf = PlotFunction(function), then the wrapper f
plot_function ==
  /\ pf = "unwrapped"
  /\ IF InitError(finfo) = ""
       THEN pf' = "wrapped" /\ err' = NoErr
       ELSE pf' = "error"
            /\ err' = [type |-> "AssertionError", msg |-> InitError(finfo)]
  /\ UNCHANGED <<finfo, pc, argv, run_has, save_figure_defaults,
                 outmap, args, kwargs, runs, output, project, current_label,
                 coll, i, result, savekwargs, calls, printed, legend,
                 figure, mon, pol>>

\* ------------------------------------------------ the undecorated function
\* one invocation of the undecorated function: receiver, trailing
\* positional arguments and the keyword arguments label, runs, output
Invocation(recv, rest, label, rcoll, ri, out) ==
  [recv |-> recv, rest |-> rest, label |-> label,
   runs |-> [coll |-> rcoll, i |-> ri], output |-> out]

\* the value the function returns for an invocation (the drawn series)
Res(inv) == [recv |-> inv.recv, label |-> inv.label]

\* the function may attach its own legend to the axes
LegendAfter(l, sets) == IF sets THEN "user" ELSE l

\* ------------------------------------------------ PlotFunction.__call__
\* lines 332-338: bind the arguments, pop `runs`, read `output`
Call ==
  /\ pf = "wrapped"
  /\ pc = "idle"
  /\ \E recv \in Receivers, rest \in Rests, label \in Labels,
        out \in OutputArgs, sel \in Selectors :
       /\ args' = [recv |-> recv, rest |-> rest]
       /\ kwargs' = [label |-> label, output |-> out]
       /\ runs' = sel
       /\ output' = out
  /\ pc' = "bound"
  /\ UNCHANGED <<finfo, pf, argv, run_has, save_figure_defaults, outmap,
                 project, current_label, coll, i, result, savekwargs, calls,
                 printed, legend, figure, err, mon, pol>>

\* variant of HasProject: the else branch of line 326 is never taken
HasProject_any(recv) == TRUE

\* the receiver is a Project, or has a project attribute
HasProject(recv) == recv.kind \in {"Project", "plugin"}

\* _infer_project, lines 319-329
infer_project ==
  /\ pc = "bound"
  /\ IF HasProject(args.recv)
       THEN project' = "project" /\ pc' = "inferred" /\ err' = NoErr
       ELSE /\ project' = project
            /\ pc' = "raised"
            /\ err' = [type |-> "AttributeError",
                       msg |-> "is not a Project instance or has a project attribute"]
  /\ UNCHANGED <<finfo, pf, argv, run_has, save_figure_defaults,
                 outmap, args, kwargs, runs, output, current_label, coll, i,
                 result, savekwargs, calls, printed, legend, figure,
                 mon, pol>>

\* truth value of self.runs: None and the empty list are false
RunsGiven(sel) == sel.kind = "Run" \/ (sel.kind = "list" /\ sel.items # <<>>)

\* line 344: no runs, the function is called once with the bound arguments
call_function ==
  /\ pc = "inferred"
  /\ ~RunsGiven(runs)
  /\ \E sets \in BOOLEAN :
       LET inv == Invocation(args.recv, args.rest, kwargs.label, <<>>, -1,
                             kwargs.output)
       IN /\ calls' = Append(calls, inv)
          /\ result' = [kind |-> "single", items |-> <<Res(inv)>>]
          /\ legend' = LegendAfter(legend, sets)
  /\ pc' = "executed"
  /\ UNCHANGED <<finfo, pf, argv, run_has, save_figure_defaults,
                 outmap, args, kwargs, runs, output, project, current_label,
                 coll, i, savekwargs, printed, figure, err, mon, pol>>

\* hasattr(self.runs, '__iter__')
Iterable(sel) == sel.kind = "list"

\* [r for r in self.runs if type(r) == str]
StrEntries(sel) == SelectSeq(sel.items, LAMBDA e : e.type = "str")

\* [r for r in self.runs if r not in current_label]
WithoutStrs(sel, strs) ==
  [kind |-> "list",
   items |-> SelectSeq(sel.items, LAMBDA e : e \notin Range(strs))]

\* lines 360-364: the selector handed to the archive
ArchiveSelector(sel) ==
  IF Iterable(sel) /\ StrEntries(sel) # <<>>
    THEN WithoutStrs(sel, StrEntries(sel)) ELSE sel

\* lines 359-364: the label of the current project, None when there is none
CurrentLabel(sel) ==
  IF Iterable(sel) /\ StrEntries(sel) # <<>>
    THEN StrEntries(sel)[1].s ELSE None

\* project.browser.runs.get_runs: the ordered collection of the selected runs
get_runs(sel) == sel.items

\* _plot_runs, lines 356-374: extract the label, resolve the runs, plot the
\* current project; label=current_label next to **self.kwargs is a
\* TypeError when self.kwargs already holds a label
plot_runs ==
  /\ pc = "inferred"
  /\ RunsGiven(runs)
  /\ runs' = ArchiveSelector(runs)
  /\ current_label' = CurrentLabel(runs)
  /\ coll' = get_runs(runs')
  /\ IF Truthy(current_label')
       THEN IF kwargs.label # NoKey
              THEN /\ pc' = "raised"
                   /\ err' = [type |-> "TypeError",
                              msg |-> "got multiple values for keyword argument label"]
                   /\ UNCHANGED <<calls, result, legend, i>>
              ELSE \E sets \in BOOLEAN :
                     LET inv == Invocation(args.recv, args.rest, current_label',
                                           <<>>, -1, kwargs.output)
                     IN /\ calls' = Append(calls, inv)
                        /\ result' = [kind |-> "list", items |-> <<Res(inv)>>]
                        /\ legend' = LegendAfter(legend, sets)
                        /\ pc' = "looping"
                        /\ i' = 1
                        /\ err' = NoErr
       ELSE /\ result' = [kind |-> "list", items |-> <<>>]
            /\ pc' = "looping"
            /\ i' = 1
            /\ UNCHANGED <<calls, legend, err>>
  /\ UNCHANGED <<finfo, pf, argv, run_has, save_figure_defaults,
                 outmap, args, kwargs, output, project, savekwargs, printed,
                 figure, mon, pol>>

\* ispi: the receiver is a sub-component of the project
ispi == args.recv.kind # "Project"

\* lines 378-381: getattr(r, piname) and getattr(piinstance, name) succeed
HasMethod(r) == run_has[r.id]

\* piinstance: the run, or the run's sub-component
RunReceiver(r) == [kind |-> IF ispi THEN "plugin" ELSE "Run", run |-> r.id]

\* rkw.setdefault('label', str(r))
RunLabel(kw, r) == IF kw.label # NoKey THEN kw.label ELSE r.s

\* variant of RunIndex: enumerate(runs, 1)
RunIndex_from_one(k) == k

\* enumerate(runs): the index handed to the run at loop position k
RunIndex(k) == k - 1

\* variant of AfterSkip: `break` in place of `continue`
AfterSkip_break(k, n) == n + 1

\* line 385, `continue`: the loop position after a skipped run at
\* position k of n
AfterSkip(k, n) == k + 1

\* lines 376-392: one iteration of the loop over the resolved runs
plot_run ==
  /\ pc = "looping"
  /\ i <= Len(coll)
  /\ LET r == coll[i] IN
       IF ~HasMethod(r)
         THEN /\ printed' = Append(printed, r.id)
              /\ i' = AfterSkip(i, Len(coll))
              /\ UNCHANGED <<calls, result, legend>>
         ELSE \E sets \in BOOLEAN :
                LET inv == Invocation(RunReceiver(r), args.rest,
                                      RunLabel(kwargs, r), coll, RunIndex(i),
                                      kwargs.output)
                IN /\ calls' = Append(calls, inv)
                   /\ result' = [result EXCEPT !.items = Append(@, Res(inv))]
                   /\ legend' = LegendAfter(legend, sets)
                   /\ printed' = printed
                   /\ i' = i + 1
  /\ UNCHANGED <<finfo, pf, pc, argv, run_has, save_figure_defaults,
                 outmap, args, kwargs, runs, output, project, current_label,
                 coll, savekwargs, figure, err, mon, pol>>

\* variant of LegendChecked: ax.legend() is called whatever get_legend()
\* returns
LegendChecked_always(l) == "auto"

\* lines 394-395: ax.legend() only when ax.get_legend() is None
LegendChecked(l) == IF l = "none" THEN "auto" ELSE l

\* lines 393-396: a legend is attached when the axes have none
plot_runs_legend ==
  /\ pc = "looping"
  /\ i > Len(coll)
  /\ legend' = LegendChecked(legend)
  /\ pc' = "executed"
  /\ UNCHANGED <<finfo, pf, argv, run_has, save_figure_defaults,
                 outmap, args, kwargs, runs, output, project, current_label,
                 coll, i, result, savekwargs, calls, printed, figure,
                 err, mon, pol>>

\* ------------------------------------------------ _get_savekwargs
\* variant of SaveKwargs: the defaults are applied after the mapping
SaveKwargs_defaults_last(defaults, out, m) ==
  IF out = DictRef THEN Update(Pop(m, OUTPUT), defaults) ELSE defaults

\* lines 398-406: the project's defaults updated with the mapping from
\* which the `output` key was popped
SaveKwargs(defaults, out, m) ==
  IF out = DictRef THEN Update(defaults, Pop(m, OUTPUT)) ELSE defaults

\* line 403 / 405: the destination; the path itself when `output` is a str
Destination(out, m) == IF out = DictRef THEN PopValue(m, OUTPUT) ELSE out

get_savekwargs ==
  /\ pc = "executed"
  /\ savekwargs' = SaveKwargs(save_figure_defaults, output, outmap)
  /\ output' = Destination(output, outmap)
  /\ outmap' = IF output = DictRef THEN Pop(outmap, OUTPUT) ELSE outmap
  /\ pc' = "savekw"
  /\ UNCHANGED <<finfo, pf, argv, run_has, save_figure_defaults,
                 args, kwargs, runs, project, current_label, coll, i, result,
                 calls, printed, legend, figure, err, mon, pol>>

\* ------------------------------------------------ save
\* savekwargs.pop('size', None); None and the empty tuple, both false at
\* line 48, are both <<>> here
SizeOf(kw) == IF SIZE \in DOMAIN kw THEN kw[SIZE] ELSE <<>>

\* line 48-49: `if size:` then `assert len(size) == 2`
SizeAccepted(size) == size # <<>> => Len(size) = 2

\* size[k]/25.4 inches, as a fraction
Inches(mm) == [num |-> mm * 10, den |-> 254]

\* the figure after save(dest, figure, **kw) returned
Saved(fig, dest, kw) ==
  [fig EXCEPT
     !.size = IF SizeOf(kw) # <<>>
                THEN <<Inches(SizeOf(kw)[1]), Inches(SizeOf(kw)[2])>> ELSE @,
     !.tight = TRUE,
     !.saved = Append(@, [dest |-> dest, kw |-> Pop(kw, SIZE),
                          size |-> IF SizeOf(kw) # <<>>
                                     THEN <<Inches(SizeOf(kw)[1]),
                                            Inches(SizeOf(kw)[2])>>
                                     ELSE fig.size])]

SizeError == [type |-> "AssertionError", msg |-> "size must be (width, height)"]

\* ------------------------------------------------ the end of __call__
\* str.endswith
endswith(s, suffix) ==
  /\ Len(s) >= Len(suffix)
  /\ SubSeq(s, Len(s) - Len(suffix) + 1, Len(s)) = suffix

SWIMPY == <<"s","w","i","m","p","y">>

\* line 351: sys.argv[0].endswith('swimpy')
FromCommandline(av) == endswith(av[1], SWIMPY)

\* variant of InBrowser: any command counts as the browser
InBrowser_any(av) == Len(av) > 1

\* line 410: len(sys.argv) > 1 and sys.argv[1] == 'browser'
InBrowser(av) == Len(av) > 1 /\ av[2] = "browser"

\* variant of Displays: `if` in place of `elif` at line 351
Displays_if(out, av) == FromCommandline(av)

\* lines 348 and 351, `elif`: the figure is displayed when there is no
\* destination and the program is the command-line program
Displays(out, av) == ~Truthy(out) /\ FromCommandline(av)

\* lines 348-349: a destination was resolved, the figure is saved to it
save_output ==
  /\ pc = "savekw"
  /\ Truthy(output)
  /\ IF SizeAccepted(SizeOf(savekwargs))
       THEN /\ figure' = Saved(figure, output, savekwargs)
            /\ pc' = "done"
            /\ err' = NoErr
       ELSE /\ figure' = figure
            /\ pc' = "raised"
            /\ err' = SizeError
  /\ UNCHANGED <<finfo, pf, argv, run_has, save_figure_defaults,
                 outmap, args, kwargs, runs, output, project, current_label,
                 coll, i, result, savekwargs, calls, printed, legend,
                 mon, pol>>

\* lines 351-352 and _display_figure, lines 408-417
display_figure ==
  /\ pc = "savekw"
  /\ Displays(output, argv)
  /\ IF InBrowser(argv)
       THEN IF SizeAccepted(SizeOf(savekwargs))
              THEN /\ figure' = [Saved(figure, TmpPath, savekwargs)
                                   EXCEPT !.cleared = TRUE]
                   /\ legend' = "none"
                   /\ result' = [kind |-> "path", items |-> <<>>]
                   /\ pc' = "done"
                   /\ err' = NoErr
              ELSE /\ pc' = "raised"
                   /\ err' = SizeError
                   /\ UNCHANGED <<figure, legend, result>>
       ELSE /\ figure' = [figure EXCEPT !.shown = @ + 1]
            /\ pc' = "done"
            /\ UNCHANGED <<legend, result, err>>
  /\ UNCHANGED <<finfo, pf, argv, run_has, save_figure_defaults,
                 outmap, args, kwargs, runs, output, project, current_label,
                 coll, i, savekwargs, calls, printed, mon, pol>>

\* line 353 reached with neither a destination nor the command line
return_result ==
  /\ pc = "savekw"
  /\ ~Truthy(output)
  /\ ~FromCommandline(argv)
  /\ pc' = "done"
  /\ UNCHANGED <<finfo, pf, argv, run_has, save_figure_defaults,
                 outmap, args, kwargs, runs, output, project, current_label,
                 coll, i, result, savekwargs, calls, printed, legend,
                 figure, err, mon, pol>>

\* line 353, or the exception leaving __call__: control is back at the
\* caller. The attributes of the finished call are all assigned again
\* before the next call reads them, and the next call draws on fresh axes;
\* only the caller's mapping object lives on.
Return ==
  /\ pc \in {"done", "raised"}
  /\ pc' = "idle"
  /\ args' = NoArgs
  /\ kwargs' = NoKw
  /\ runs' = NoSel
  /\ output' = None
  /\ project' = None
  /\ current_label' = None
  /\ coll' = <<>>
  /\ i' = 0
  /\ result' = NoResult
  /\ savekwargs' = EmptyDict
  /\ calls' = <<>>
  /\ printed' = <<>>
  /\ legend' = "none"
  /\ figure' = NoFigure
  /\ err' = NoErr
  /\ UNCHANGED <<finfo, pf, argv, run_has, save_figure_defaults,
                 outmap, mon, pol>>

\* ------------------------------------------------ the specification
Init ==
  /\ finfo \in FInfos
  /\ pf = "unwrapped"
  /\ pc = "idle"
  /\ argv \in Argvs
  /\ run_has \in [1..NRuns -> BOOLEAN]
  /\ save_figure_defaults \in Defaults
  /\ outmap \in OutMaps
  /\ args = NoArgs
  /\ kwargs = NoKw
  /\ runs = NoSel
  /\ output = None
  /\ project = None
  /\ current_label = None
  /\ coll = <<>>
  /\ i = 0
  /\ result = NoResult
  /\ savekwargs = EmptyDict
  /\ calls = <<>>
  /\ printed = <<>>
  /\ legend = "none"
  /\ figure = NoFigure
  /\ err = NoErr
  /\ mon = MonIdle
  /\ pol = PolIdle

Next ==
  \/ plot_function
  \/ Call
  \/ infer_project
  \/ call_function
  \/ plot_runs
  \/ plot_run
  \/ plot_runs_legend
  \/ get_savekwargs
  \/ save_output
  \/ display_figure
  \/ return_result
  \/ Return

Spec == Init /\ [][Next]_vars

\* the wrapper side at rest, for the specifications of the other functions
CallIdle ==
  /\ finfo = [name |-> <<"p","l","o","t","_","q">>, ax |-> "None",
              output |-> "None", kwargs |-> TRUE]
  /\ pf = "unwrapped"
  /\ pc = "idle"
  /\ argv = <<PythonPath>>
  /\ run_has = [n \in 1..NRuns |-> TRUE]
  /\ save_figure_defaults = EmptyDict
  /\ outmap = EmptyDict
  /\ args = NoArgs
  /\ kwargs = NoKw
  /\ runs = NoSel
  /\ output = None
  /\ project = None
  /\ current_label = None
  /\ coll = <<>>
  /\ i = 0
  /\ result = NoResult
  /\ savekwargs = EmptyDict
  /\ calls = <<>>
  /\ printed = <<>>
  /\ legend = "none"
  /\ figure = NoFigure
  /\ err = NoErr

\* ============================================================ output.py
\* catchment_monthly_waterbalance.from_project

\* the rows of bam.prn after its first line ("Year = YYYY") and the header
\* line: per year 12 monthly rows (fewer in an unfinished last year), and
\* before every further year a "Year = ..." row and a repeated header row
DataRows(n) == [m \in 1..n |-> [kind |-> "data", MON |-> m]]
YearBlock(y, n) ==
  IF y = 1 THEN DataRows(n)
  ELSE <<[kind |-> "year", MON |-> 0], [kind |-> "header", MON |-> 0]>>
       \o DataRows(n)
RECURSIVE RawRows(_, _)
RawRows(years, last) ==
  IF years = 0 THEN <<>>
  ELSE RawRows(years - 1, 12) \o YearBlock(years, last)

\* int(x) of a quotient a/b with b > 0: rounds towards zero
TruncDiv(a, b) == IF a >= 0 THEN a \div b ELSE -((-a) \div b)

\* '%04i-%02i' % (y, m) as a character sequence
Digit(d) == <<"0","1","2","3","4","5","6","7","8","9">>[d + 1]
FormatPeriod(y, m) ==
  <<Digit((y \div 1000) % 10), Digit((y \div 100) % 10),
    Digit((y \div 10) % 10), Digit(y % 10), "-",
    Digit((m \div 10) % 10), Digit(m % 10)>>

\* pd.PeriodIndex([...], freq='m') on one 'YYYY-MM' string
DigitValue(c) == CHOOSE d \in 0..9 : Digit(d) = c
ParsePeriod(t) ==
  [year |-> DigitValue(t[1]) * 1000 + DigitValue(t[2]) * 100
            + DigitValue(t[3]) * 10 + DigitValue(t[4]),
   month |-> DigitValue(t[6]) * 10 + DigitValue(t[7])]

\* line 110: the year written for the row at enumerate position k (from 0)
RowYear(iyr, k) == iyr + TruncDiv(k - 1, 12)

\* line 109: df.index[range(12, len(df), 12+1)], as 1-based positions
HeaderPositions(n) == {k \in 1..n : k - 1 >= 12 /\ (k - 1 - 12) % 13 = 0}

RECURSIVE DropPositions(_, _, _)
DropPositions(rows, drop, k) ==
  IF k > Len(rows) THEN <<>>
  ELSE (IF k \in drop THEN <<>> ELSE <<rows[k]>>)
       \o DropPositions(rows, drop, k + 1)

StartYears == {1991, 2009}

InitMonthly ==
  /\ CallIdle
  /\ pol = PolIdle
  /\ \E y \in StartYears, years \in 1..MaxYears, last \in 1..12 :
       mon = [pc |-> "open", iyr |-> 0, firstline |-> y,
              raw |-> RawRows(years, last), df |-> <<>>, k |-> 0,
              dtms |-> <<>>, index |-> <<>>]

\* lines 104-107: the start year from the first line, the table from the rest
mon_read ==
  /\ mon.pc = "open"
  /\ mon' = [mon EXCEPT !.pc = "read", !.iyr = mon.firstline, !.df = mon.raw]
  /\ UNCHANGED <<callvars, pol>>

\* line 108: df.dropna drops the "Year = ..." rows
mon_dropna ==
  /\ mon.pc = "read"
  /\ mon' = [mon EXCEPT !.pc = "dropna",
                        !.df = SelectSeq(mon.df, LAMBDA r : r.kind # "year")]
  /\ UNCHANGED <<callvars, pol>>

\* line 109: the repeated headers are dropped by position
mon_drop_headers ==
  /\ mon.pc = "dropna"
  /\ mon' = [mon EXCEPT
               !.pc = "rows",
               !.df = DropPositions(mon.df, HeaderPositions(Len(mon.df)), 1)]
  /\ UNCHANGED <<callvars, pol>>

\* lines 110-111: one element of the list comprehension
mon_format_row ==
  /\ mon.pc = "rows"
  /\ mon.k < Len(mon.df)
  /\ mon' = [mon EXCEPT
               !.k = @ + 1,
               !.dtms = Append(@, FormatPeriod(RowYear(mon.iyr, mon.k),
                                               mon.df[mon.k + 1].MON))]
  /\ UNCHANGED <<callvars, pol>>

\* lines 112-113: the period index is built and the table returned
mon_period_index ==
  /\ mon.pc = "rows"
  /\ mon.k = Len(mon.df)
  /\ mon' = [mon EXCEPT
               !.pc = "done",
               !.index = [k \in 1..Len(mon.dtms) |-> ParsePeriod(mon.dtms[k])]]
  /\ UNCHANGED <<callvars, pol>>

NextMonthly ==
  \/ mon_read
  \/ mon_dropna
  \/ mon_drop_headers
  \/ mon_format_row
  \/ mon_period_index

SpecMonthly == InitMonthly /\ [][NextMonthly]_vars

\* ============================================================ plot.py
\* plot_flow_duration_polar

\* percentilestep arguments
Steps == {10, 20, 25, 30, 50, 60}

\* the series: values (NaN is a missing value) with the calendar unit
\* (month or day of year) of their index
NaN == 0
Values == {NaN, 1, 2}
Units == {1, 2}
Points == [val : Values, unit : Units]
SeriesSet == UNION {[1..n -> Points] : n \in 0..MaxN}

\* series.dropna()
dropna(series) == SelectSeq(series, LAMBDA p : p.val # NaN)

\* the orders sort_values may return: ascending, ties in any order
Orderings(n) == {f \in [1..n -> 1..n] : \A a, b \in 1..n : f[a] = f[b] => a = b}
SortedOrders(series) ==
  {[k \in 1..Len(series) |-> series[f[k]]] : f \in
     {g \in Orderings(Len(series)) :
        \A a, b \in 1..Len(series) : a < b => series[g[a]].val <= series[g[b]].val}}

\* int(round(x)) for x = num/100 >= 0: Python 2 rounds halves away from
\* zero, Python 3 to the even neighbour
Round100(num, python) ==
  LET q == num \div 100
      r == num % 100
  IN IF r < 50 THEN q
     ELSE IF r > 50 THEN q + 1
     ELSE IF python = 2 THEN q + 1
     ELSE IF q % 2 = 0 THEN q ELSE q + 1

Min(a, b) == IF a <= b THEN a ELSE b

\* line 138: iib = min(int(round(n*b/100.)), n)
BinEnd(n, b, python) == Min(Round100(n * b, python), n)

\* variant of BinCount: the slice ssorted.iloc[ib-1:iib]
BinCount_overlapping(ssorted, ib, iib) ==
  [u \in Units |->
     Cardinality({k \in 1..iib : k >= ib /\ ssorted[k].unit = u})]

\* line 141 before the division by float(n): values of the slice
\* ssorted.iloc[ib:iib] per calendar unit
BinCount(ssorted, ib, iib) ==
  [u \in Units |-> Cardinality({k \in (ib + 1)..iib : ssorted[k].unit = u})]

InitPolar ==
  /\ CallIdle
  /\ mon = MonIdle
  /\ \E st \in Steps, series \in SeriesSet, python \in {2, 3} :
       pol = [pc |-> "assert", percentilestep |-> st, series |-> series,
              python |-> python, axes |-> "given", ssorted |-> <<>>, n |-> 0,
              ib |-> 0, b |-> 0, count |-> <<>>, bins |-> <<>>,
              slices |-> <<>>, err |-> NoErr]

\* line 124: assert percentilestep <= 50
polar_assert ==
  /\ pol.pc = "assert"
  /\ IF pol.percentilestep <= 50
       THEN pol' = [pol EXCEPT !.pc = "axes"]
       ELSE pol' = [pol EXCEPT !.pc = "raised",
                               !.err = [type |-> "AssertionError", msg |-> ""]]
  /\ UNCHANGED <<callvars, mon>>

\* lines 125-129: the axes are switched off and polar axes added to the figure
polar_axes ==
  /\ pol.pc = "axes"
  /\ pol' = [pol EXCEPT !.pc = "sort", !.axes = "polar"]
  /\ UNCHANGED <<callvars, mon>>

\* lines 131-135
polar_sort ==
  /\ pol.pc = "sort"
  /\ \E s \in SortedOrders(dropna(pol.series)) :
       pol' = [pol EXCEPT !.pc = "bins", !.ssorted = s, !.n = Len(s),
                          !.ib = 0, !.b = pol.percentilestep]
  /\ UNCHANGED <<callvars, mon>>

\* lines 136-142: one pass of the loop over range(percentilestep, 101,
\* percentilestep)
polar_bin ==
  /\ pol.pc = "bins"
  /\ pol.b <= 100
  /\ LET iib == BinEnd(pol.n, pol.b, pol.python) IN
       pol' = [pol EXCEPT
                 !.bins = Append(@, pol.b),
                 !.slices = Append(@, [from |-> pol.ib, to |-> iib]),
                 !.count = Append(@, BinCount(pol.ssorted, pol.ib, iib)),
                 !.ib = iib,
                 !.b = @ + pol.percentilestep]
  /\ UNCHANGED <<callvars, mon>>

\* lines 144-168: the bars are drawn on the polar axes
polar_draw ==
  /\ pol.pc = "bins"
  /\ pol.b > 100
  /\ pol' = [pol EXCEPT !.pc = "done", !.axes = "drawn"]
  /\ UNCHANGED <<callvars, mon>>

NextPolar ==
  \/ polar_assert
  \/ polar_axes
  \/ polar_sort
  \/ polar_bin
  \/ polar_draw

SpecPolar == InitPolar /\ [][NextPolar]_vars

\* ============================================================ properties

\* C1: an overlay call whose selector holds two runs that carry the method
\* and the current label "live" invokes the function for the current
\* project with label "live", then for the first run, then for the second,
\* and returns the list of the three results in that order.
C1_OverlayOrder ==
  (/\ pc \in {"done", "raised"}
   /\ current_label = "live"
   /\ Len(coll) = 2
   /\ \A k \in 1..2 : run_has[coll[k].id])
  => /\ pc = "done"
     /\ Len(calls) = 3
     /\ calls[1].recv = args.recv
     /\ calls[1].label = "live"
     /\ \A k \in 1..2 : calls[k + 1].recv.run = coll[k].id
     /\ result = [kind |-> "list", items |-> [k \in 1..3 |-> Res(calls[k])]]

\* C2: every run of the resolved collection that lacks the method adds no
\* entry to the result and prints a diagnostic, the loop raises nothing and
\* goes on to the end of the collection, and every visited run that has the
\* method was invoked.
C2_MissingMethodSkipped ==
  i >= 1 =>
    /\ pc = "looping" => err = NoErr
    /\ pc \in {"executed", "savekw", "done"} => i = Len(coll) + 1
    /\ pc = "raised" => i = Len(coll) + 1 /\ err.type = "AssertionError"
    /\ Len(result.items) = Len(calls) \/ result.kind = "path"
    /\ \A k \in 1..(i - 1) :
         IF run_has[coll[k].id]
           THEN \E c \in 1..Len(calls) :
                  calls[c].runs.i = k - 1 /\ calls[c].recv.run = coll[k].id
           ELSE /\ \E d \in 1..Len(printed) : printed[d] = coll[k].id
                /\ \A c \in 1..Len(calls) : calls[c].recv.run # coll[k].id

C2_Witness ==
  /\ pc = "done"
  /\ Len(coll) = 2
  /\ ~run_has[coll[1].id]
  /\ run_has[coll[2].id]
  /\ printed = <<coll[1].id>>
  /\ Len(calls) = 1
  /\ calls[1].recv.run = coll[2].id

\* C3: wrapping succeeds exactly when the name begins with "plot", ax and
\* output are optional with default None and **kwargs is accepted; otherwise
\* it fails with an AssertionError carrying a message, and no call of the
\* wrapper ever starts.
C3_WrapValidation ==
  /\ pf # "unwrapped" =>
       (pf = "wrapped" <=>
          /\ Len(finfo.name) >= 4
          /\ finfo.name[1] = "p" /\ finfo.name[2] = "l"
          /\ finfo.name[3] = "o" /\ finfo.name[4] = "t"
          /\ finfo.ax = "None"
          /\ finfo.output = "None"
          /\ finfo.kwargs)
  /\ pf = "error" =>
       /\ err.type = "AssertionError"
       /\ err.msg # ""
            /\ pc = "idle"
       /\ calls = <<>>
  /\ pc # "idle" => pf = "wrapped"

C3_Witness ==
  /\ pf = "error"
  /\ finfo.output = "absent"
  /\ finfo.ax = "None"
  /\ finfo.kwargs
  /\ finfo.name = <<"p","l","o","t","_","q">>

\* C4: the retained row with 1-based index k and month field m gets the
\* period with year Y + floor((k-1)/12) and month m.
C4_RowPeriod ==
  mon.pc = "done" =>
    /\ Len(mon.index) = Len(mon.df)
    /\ \A k \in 1..Len(mon.index) :
         mon.index[k] = [year |-> mon.firstline + ((k - 1) \div 12),
                         month |-> mon.df[k].MON]

\* C5 as stated: once Finalize has run with a destination, the figure is
\* saved to it and neither shown nor written to a temporary file; it is
\* shown only without a destination and from the command-line program.
C5_SavedWheneverDestination ==
  (pc = "done" \/ (pc = "raised" /\ err.type = "AssertionError")) =>
    /\ Truthy(output) =>
         /\ figure.shown = 0
         /\ Len(figure.saved) = 1
         /\ figure.saved[1].dest = output
    /\ figure.shown > 0 => ~Truthy(output) /\ endswith(argv[1], SWIMPY)

\* C5 amended: once Finalize has run with a destination, the figure is
\* neither shown nor written to a temporary file; it is saved to the
\* destination unless save rejects a size option whose length is neither 0
\* nor 2, and then the call fails with nothing written. It is shown only
\* without a destination and from the command-line program.
C5_SavedNotDisplayed ==
  (pc = "done" \/ (pc = "raised" /\ err.type = "AssertionError")) =>
    /\ Truthy(output) =>
         /\ figure.shown = 0
         /\ \A f \in 1..Len(figure.saved) : figure.saved[f].dest # TmpPath
         /\ IF SIZE \in DOMAIN savekwargs /\ Len(savekwargs[SIZE]) \notin {0, 2}
              THEN pc = "raised" /\ figure.saved = <<>>
              ELSE /\ pc = "done"
                   /\ Len(figure.saved) = 1
                   /\ figure.saved[1].dest = output
    /\ figure.shown > 0 => ~Truthy(output) /\ endswith(argv[1], SWIMPY)

C5_Witness ==
  /\ pc = "done"
  /\ kwargs.output = DictRef
  /\ output = "map.png"
  /\ argv = <<SwimpyPath, "browser">>
  /\ Len(figure.saved) = 1
  /\ figure.saved[1].dest = "map.png"

\* C6: the save options are the project's defaults overridden by the keys
\* of the mapping other than `output`; the mapping's `output` value becomes
\* the destination and is no save option; these options are the ones save
\* receives.
C6_SaveOptionsMerged ==
  [][/\ (pc = "executed" /\ pc' = "savekw") =>
         LET m == IF output = DictRef THEN outmap ELSE EmptyDict IN
           /\ DOMAIN savekwargs' =
                (DOMAIN save_figure_defaults) \cup ((DOMAIN m) \ {OUTPUT})
           /\ \A k \in (DOMAIN m) \ {OUTPUT} : savekwargs'[k] = m[k]
           /\ \A k \in (DOMAIN save_figure_defaults) \ (DOMAIN m) :
                savekwargs'[k] = save_figure_defaults[k]
           /\ output = DictRef =>
                output' = (IF OUTPUT \in DOMAIN m THEN m[OUTPUT] ELSE None)
     /\ (pc = "savekw" /\ pc' = "done" /\ figure'.saved # <<>>) =>
           /\ DOMAIN figure'.saved[1].kw = (DOMAIN savekwargs) \ {SIZE}
           /\ \A k \in (DOMAIN savekwargs) \ {SIZE} :
                figure'.saved[1].kw[k] = savekwargs[k]
    ]_vars

C6_Witness ==
  /\ pc = "done"
  /\ kwargs.output = DictRef
  /\ save_figure_defaults = [k \in {DPI, SIZE} |->
                               IF k = DPI THEN <<72>> ELSE <<210, 297>>]
  /\ output = "map.png"
  /\ savekwargs = [k \in {DPI, SIZE} |->
                     IF k = DPI THEN <<300>> ELSE <<210, 297>>]
  /\ Len(figure.saved) = 1
  /\ figure.saved[1].kw = [k \in {DPI} |-> <<300>>]

\* C7: a call whose receiver is neither a Project nor has a project
\* attribute ends with an AttributeError, and the function has not been
\* invoked, no run resolved and nothing saved or displayed.
C7_NoProjectRaises ==
  (pc # "idle" /\ args.recv.kind \notin {"Project", "plugin"}) =>
    /\ pc \in {"bound", "raised"}
    /\ pc = "raised" => err.type = "AttributeError"
    /\ calls = <<>>
    /\ coll = <<>>
    /\ current_label = None
    /\ i = 0
    /\ figure = NoFigure
    /\ result = NoResult

C7_Witness ==
  /\ pc = "raised"
  /\ err.type = "AttributeError"
  /\ args.recv.kind = "other"
  /\ runs.kind = "list"
  /\ Len(runs.items) = 2
  /\ kwargs.output = "fig.png"

\* C8: every invocation for a run has the run (or its sub-component) as
\* receiver, the caller's trailing arguments, runs = (collection, position
\* of the run in the whole collection) and the caller's label or else the
\* run's string form; the wrapper's own keyword arguments stay as bound.
C8_RunInvocation ==
  /\ \A c \in 1..Len(calls) :
       calls[c].runs.i >= 0 =>
         /\ calls[c].runs.i + 1 <= Len(coll)
         /\ calls[c].runs.coll = coll
         /\ calls[c].recv = [kind |-> IF args.recv.kind = "Project"
                                        THEN "Run" ELSE "plugin",
                             run |-> coll[calls[c].runs.i + 1].id]
         /\ calls[c].rest = args.rest
         /\ calls[c].label = IF kwargs.label # NoKey THEN kwargs.label
                             ELSE coll[calls[c].runs.i + 1].s
         /\ calls[c].output = kwargs.output
  /\ \A c, d \in 1..Len(calls) :
       (c < d /\ calls[c].runs.i >= 0) => calls[c].runs.i < calls[d].runs.i

C8_Witness ==
  /\ pc = "done"
  /\ Len(coll) = 2
  /\ ~run_has[coll[1].id]
  /\ args.recv.kind = "plugin"
  /\ args.rest = <<"arg">>
  /\ kwargs.label = NoKey
  /\ Len(calls) = 1
  /\ calls[1].runs.i = 1
  /\ calls[1].label = coll[2].s
  /\ calls[1].recv = [kind |-> "plugin", run |-> coll[2].id]

\* C9: when the selector holds a string entry, the function is invoked
\* exactly once for the current project, first, with that string as label,
\* whatever label the caller passed, and no string entry is left in the
\* selector handed to the archive.
C9_CurrentLabelForced ==
  (pc \in {"looping", "executed", "savekw", "done", "raised"}
   /\ current_label # None)
  => /\ Len(calls) >= 1
     /\ calls[1].recv = args.recv
     /\ calls[1].label = current_label
     /\ calls[1].runs.i = -1
     /\ \A c \in 2..Len(calls) : calls[c].runs.i >= 0
     /\ \A k \in 1..Len(runs.items) : runs.items[k].type # "str"

\* C10: a percentilestep that does not divide 50 is rejected with an error
\* and the axes are left as given.
C10_StepRejected ==
  (pol.pc # "off" /\ 50 % pol.percentilestep # 0) =>
    /\ pol.pc \in {"assert", "raised"}
    /\ pol.axes = "given"

\* C11: with percentilestep = 50 the finished binning has exactly the bins
\* 50 and 100, every non-missing value lies in exactly one of the two
\* slices, and for each calendar unit the counts of the two bins add up to
\* the number of non-missing values of that unit (both sides are divided by
\* the same n), which is at most n.
C11_TwoBinsPartition ==
  (pol.pc = "done" /\ pol.percentilestep = 50) =>
    /\ pol.bins = <<50, 100>>
    /\ Len(pol.count) = 2
    /\ pol.n = Len(dropna(pol.series))
    /\ \A k \in 1..pol.n :
         Cardinality({j \in 1..Len(pol.slices) :
                        pol.slices[j].from < k /\ k <= pol.slices[j].to}) = 1
    /\ \A u \in Units :
         /\ pol.count[1][u] + pol.count[2][u]
              = Cardinality({k \in 1..Len(pol.series) :
                               pol.series[k].val # NaN /\ pol.series[k].unit = u})
         /\ pol.count[1][u] + pol.count[2][u] <= pol.n

\* a finished binning with step 50 of a series with a missing value, where
\* one calendar unit has values in both bins
C11_Witness ==
  /\ pol.pc = "done"
  /\ pol.percentilestep = 50
  /\ pol.n >= 2
  /\ pol.n < Len(pol.series)
  /\ \E u \in Units : pol.count[1][u] >= 1 /\ pol.count[2][u] >= 1

\* C12: save called with a size option whose length is not 2, the empty
\* tuple included, fails before the figure is resized, laid out or written;
\* with a pair the figure is written with width/25.4 by height/25.4 inches.
C12_SizeValidated ==
  /\ (figure.saved # <<>> /\ SIZE \in DOMAIN savekwargs) =>
       /\ Len(savekwargs[SIZE]) = 2
       /\ figure.saved[Len(figure.saved)].size
            = <<Inches(savekwargs[SIZE][1]), Inches(savekwargs[SIZE][2])>>
  /\ err = SizeError =>
       /\ SIZE \in DOMAIN savekwargs
       /\ Len(savekwargs[SIZE]) # 2
       /\ figure = NoFigure

\* C13 as stated: every call that gets to the end of __call__ without a
\* destination in the browser context has written the figure to a
\* temporary file with the merged save options, cleared it and returns the
\* path; every other call that returns gives the result of the function, or
\* the list of the results in overlay mode.
C13_TempFileAlways ==
  (pc = "done" \/ (pc = "raised" /\ err = SizeError)) =>
    IF ~Truthy(output) /\ FromCommandline(argv)
          /\ Len(argv) > 1 /\ argv[2] = "browser"
      THEN /\ Len(figure.saved) = 1
           /\ figure.saved[1].dest = TmpPath
           /\ figure.cleared
           /\ result = [kind |-> "path", items |-> <<>>]
      ELSE pc = "done" =>
             /\ result.kind \in {"single", "list"}
             /\ result.items = [k \in 1..Len(calls) |-> Res(calls[k])]

\* C13, amended: a call without a destination in the browser context that
\* returns has written the figure once, to a temporary file, with the
\* merged save options, has cleared the figure and returns the path; every
\* other call that returns gives the result of the single invocation, or
\* the list of the results of the invocations in overlay mode, and writes
\* no temporary file; when save rejects the size nothing is written, the
\* figure is not cleared and no path is returned.
C13_TempFileOrResult ==
  /\ pc = "done" =>
       IF ~Truthy(output) /\ FromCommandline(argv)
             /\ Len(argv) > 1 /\ argv[2] = "browser"
         THEN /\ savekwargs = SaveKwargs(save_figure_defaults, kwargs.output,
                                         outmap)
              /\ figure.saved
                   = <<[dest |-> TmpPath, kw |-> Pop(savekwargs, SIZE),
                        size |-> IF SizeOf(savekwargs) # <<>>
                                   THEN <<Inches(SizeOf(savekwargs)[1]),
                                          Inches(SizeOf(savekwargs)[2])>>
                                   ELSE <<>>]>>
              /\ figure.cleared
              /\ result = [kind |-> "path", items |-> <<>>]
         ELSE /\ result.kind \in {"single", "list"}
              /\ result.kind = "single" =>
                   (Len(calls) = 1 /\ calls[1].runs.i = -1)
              /\ result.items = [k \in 1..Len(calls) |-> Res(calls[k])]
              /\ ~figure.cleared
              /\ \A k \in 1..Len(figure.saved) : figure.saved[k].dest # TmpPath
  /\ (pc = "raised" /\ err = SizeError) =>
       /\ Len(SizeOf(savekwargs)) \notin {0, 2}
       /\ figure = NoFigure
       /\ result.kind # "path"

\* an overlay call in the browser context without a destination has
\* returned the path, the temporary file written with a size from the
\* merged options
C13_Witness ==
  /\ pc = "done"
  /\ ~Truthy(output)
  /\ FromCommandline(argv)
  /\ Len(argv) > 1 /\ argv[2] = "browser"
  /\ kwargs.output = DictRef
  /\ Len(calls) >= 2
  /\ result.kind = "path"
  /\ figure.cleared
  /\ Len(figure.saved) = 1
  /\ figure.saved[1].dest = TmpPath
  /\ figure.saved[1].size = <<Inches(100), Inches(50)>>

\* C14: the wrapper attaches a legend only in the step that follows the
\* last run of an overlay call, every run that carries the method drawn and
\* nothing saved or displayed yet; after that step the axes have a legend,
\* a legend that existed is the one still there; a call without a runs
\* selector gets no legend from the wrapper.
C14_LegendAfterLastRun ==
  [][/\ (legend' = "auto" /\ legend # "auto") =>
          /\ pc = "looping" /\ pc' = "executed"
          /\ i > Len(coll)
          /\ Cardinality({k \in 1..Len(coll) : HasMethod(coll[k])})
               = Cardinality({c \in 1..Len(calls) : calls[c].runs.i >= 0})
          /\ result.kind = "list"
          /\ figure = NoFigure
     /\ (pc = "looping" /\ pc' = "executed") =>
          /\ legend' # "none"
          /\ legend # "none" => legend' = legend
          /\ figure' = NoFigure
     /\ (pc = "inferred" /\ pc' = "executed") =>
          /\ result'.kind = "single"
          /\ legend' \in {"none", "user"}
          /\ legend' # legend => Len(calls') = Len(calls) + 1
    ]_vars

\* the legend check of an overlay call of two drawn runs has attached a
\* legend, the figure not yet saved or displayed
C14_Witness ==
  /\ pc = "executed"
  /\ result.kind = "list"
  /\ Len(coll) = 2
  /\ Len(calls) >= 2
  /\ legend = "auto"
  /\ figure = NoFigure

\* C15: no step of a call changes the mapping the caller passed as
\* `output`, so a later call given the same mapping finds the same
\* destination in it.
C15_OutputMappingUnchanged == [][outmap' = outmap]_vars

====
